---- MODULE Spec2Model ----
(***************************************************************************)
(* NativeIntQ (src/queue_native.go): a bounded FIFO queue of ints on a     *)
(* circular buffer, guarded by one sync.Mutex and two sync.Cond (putcv,    *)
(* getcv) that share it.  Every thread runs Put, TryPut, Get and TryGet;   *)
(* each statement of a critical section is one step of the thread.         *)
(***************************************************************************)
EXTENDS Integers, Sequences, FiniteSets

(* ------------------------------ bounds -------------------------------- *)
NThreads == 3
MaxCap == 2
MaxVal == 3
MaxOps == 4
MaxPairs == 2

Threads == 1..NThreads
Capacities == 0..MaxCap
Values == 1..MaxVal
NoThread == 0

(* ------------------------------- state -------------------------------- *)
VARIABLES
  capacity,   \* nvq.capacity
  queue,      \* nvq.queue, slots 0..capacity-1
  head,       \* nvq.head
  tail,       \* nvq.tail
  length,     \* nvq.length
  mtx,        \* nvq.mtx: the thread holding it, or NoThread
  putcv,      \* threads suspended in putcv.Wait()
  getcv,      \* threads suspended in getcv.Wait()
  pc,         \* per thread: the statement it executes next
  arg,        \* per thread: the parameter value of Put / TryPut
  value,      \* per thread: the local (result) value of Get / TryGet
  err,        \* per thread: the error result of TryPut / TryGet
  calls,      \* number of calls made so far (bounded by MaxOps)
  work,       \* per thread: the Put and Get calls of a fixed workload
  todo,       \* per thread: the calls of the workload still to be made
  inserted,   \* history: the values inserted, in the order of length++
  removed,    \* history: the values removed, in the order of length--
  mark,       \* history, per thread: what the queue was when the call began
  entry,      \* history: the shared state when the mutex last changed hands
  signalled,  \* history: the conditions signalled in this critical section
  cvr         \* skel.cvr: threads suspended in cvr.Wait() (Skeleton queue)

vars == <<capacity, queue, head, tail, length, mtx, putcv, getcv, pc, arg,
          value, err, calls, work, todo, inserted, removed, mark, entry,
          signalled, cvr>>

shared == <<capacity, queue, head, tail, length>>
locals == <<arg, value, err>>
NoWork == [t \in Threads |-> [put |-> 0, get |-> 0]]
history == <<inserted, removed, mark>>

NoErr == "nil"
ErrFull == "queue is full"
ErrEmpty == "queue is empty"
NoMark == [full |-> FALSE, empty |-> FALSE, ins |-> 0, rem |-> 0, waited |-> FALSE]

Snap(pcv, gcv) ==
  [queue |-> queue, head |-> head, tail |-> tail, length |-> length,
   putcv |-> pcv, getcv |-> gcv]

(* Len and Cap read their field without locking. *)
QLen == length
QCap == capacity

(* NewNativeQueue(size) *)
NewNativeQueue(size) ==
  /\ capacity = size
  /\ queue = [i \in 0..(size - 1) |-> 0]
  /\ head = 0
  /\ tail = 0
  /\ length = 0
  /\ mtx = NoThread
  /\ putcv = {}
  /\ getcv = {}

InitThreads ==
  /\ pc = [t \in Threads |-> "idle"]
  /\ arg = [t \in Threads |-> 0]
  /\ value = [t \in Threads |-> 0]
  /\ err = [t \in Threads |-> NoErr]
  /\ inserted = <<>>
  /\ removed = <<>>
  /\ mark = [t \in Threads |-> NoMark]
  /\ entry = Snap({}, {})
  /\ signalled = {}

Init ==
  /\ \E size \in Capacities : NewNativeQueue(size)
  /\ cvr = {}
  /\ InitThreads
  /\ calls = 0
  /\ work = NoWork
  /\ todo = work

(* -------------------------- mutex and conditions ---------------------- *)
Goto(t, next) == pc' = [pc EXCEPT ![t] = next]

(* A run-time panic (index out of range, integer divide by zero) ends the  *)
(* process: no thread takes another step.                                  *)
Running == \A t \in Threads : pc[t] # "panic"

(* thread t is about to execute statement l *)
At(t, l) == Running /\ pc[t] = l

(* c.L.Lock(): blocks while another thread holds the mutex. *)
(* slip: Lock returns at once even when another thread holds the mutex *)
Lock_NoBlock(t, next) ==
  /\ mtx' = t
  /\ Goto(t, next)
  /\ entry' = Snap(putcv, getcv)
  /\ signalled' = {}
  /\ UNCHANGED <<shared, putcv, getcv, locals, calls, work, cvr, todo, history>>


Lock(t, next) ==
  /\ mtx = NoThread
  /\ mtx' = t
  /\ Goto(t, next)
  /\ entry' = Snap(putcv, getcv)
  /\ signalled' = {}
  /\ UNCHANGED <<shared, putcv, getcv, locals, calls, work, cvr, todo, history>>

(* the deferred c.L.Unlock(), and the return to the caller *)
Unlock(t) ==
  /\ mtx = t
  /\ mtx' = NoThread
  /\ Goto(t, "idle")
  /\ arg' = [arg EXCEPT ![t] = 0]
  /\ value' = [value EXCEPT ![t] = 0]
  /\ err' = [err EXCEPT ![t] = NoErr]
  /\ mark' = [mark EXCEPT ![t] = NoMark]
  /\ entry' = Snap(putcv, getcv)
  /\ signalled' = {}
  /\ UNCHANGED <<shared, putcv, getcv, calls, work, cvr, todo, inserted, removed>>

(* slip: the signal to the consumers is lost (no waiter is woken) *)
SignalGet_Lost(t, next) ==
  /\ signalled' = signalled \cup {"getcv"}
  /\ Goto(t, next)
  /\ UNCHANGED <<shared, mtx, putcv, getcv, locals, calls, work, cvr, todo, history,
                 entry>>


(* slip: Broadcast instead of Signal: every suspended consumer is woken *)
SignalGet_Broadcast(t, next) ==
  /\ signalled' = signalled \cup {"getcv"}
  /\ getcv' = {}
  /\ pc' = [w \in Threads |->
              IF w = t THEN next ELSE IF w \in getcv THEN "Get_Relock" ELSE pc[w]]
  /\ UNCHANGED <<shared, mtx, putcv, locals, calls, work, cvr, todo, history, entry>>


(* nvq.getcv.Signal(): wakes one thread suspended in getcv.Wait(), if any;  *)
(* the woken thread has yet to re-acquire the mutex.                        *)
SignalGet(t, next) ==
  /\ signalled' = signalled \cup {"getcv"}
  /\ \/ /\ getcv = {}
        /\ Goto(t, next)
        /\ UNCHANGED getcv
     \/ \E w \in getcv :
          /\ getcv' = getcv \ {w}
          /\ pc' = [pc EXCEPT ![t] = next, ![w] = "Get_Relock"]
  /\ UNCHANGED <<shared, mtx, putcv, locals, calls, work, cvr, todo, history, entry>>

(* slip: the signal to the producers is lost (no waiter is woken) *)
SignalPut_Lost(t, next) ==
  /\ signalled' = signalled \cup {"putcv"}
  /\ Goto(t, next)
  /\ UNCHANGED <<shared, mtx, putcv, getcv, locals, calls, work, cvr, todo, history,
                 entry>>

(* nvq.putcv.Signal(): wakes one thread suspended in putcv.Wait(), if any. *)
SignalPut(t, next) ==
  /\ signalled' = signalled \cup {"putcv"}
  /\ \/ /\ putcv = {}
        /\ Goto(t, next)
        /\ UNCHANGED putcv
     \/ \E w \in putcv :
          /\ putcv' = putcv \ {w}
          /\ pc' = [pc EXCEPT ![t] = next, ![w] = "Put_Relock"]
  /\ UNCHANGED <<shared, mtx, getcv, locals, calls, work, cvr, todo, history, entry>>

(* nvq.putcv.Wait(): joins the waiters and releases the mutex, atomically   *)
WaitPut(t) ==
  /\ putcv' = putcv \cup {t}
  /\ mtx' = NoThread
  /\ Goto(t, "Put_Wait")
  /\ entry' = Snap(putcv', getcv)
  /\ signalled' = {}
  /\ mark' = [mark EXCEPT ![t].waited = TRUE]
  /\ UNCHANGED <<shared, getcv, locals, calls, work, cvr, todo, inserted, removed>>

(* nvq.getcv.Wait() *)
WaitGet(t) ==
  /\ getcv' = getcv \cup {t}
  /\ mtx' = NoThread
  /\ Goto(t, "Get_Wait")
  /\ entry' = Snap(putcv, getcv')
  /\ signalled' = {}
  /\ mark' = [mark EXCEPT ![t].waited = TRUE]
  /\ UNCHANGED <<shared, putcv, locals, calls, work, cvr, todo, inserted, removed>>

(* --------------------------- buffer statements ------------------------ *)
Panic(t) ==
  /\ Goto(t, "panic")
  /\ UNCHANGED <<shared, mtx, putcv, getcv, locals, calls, work, cvr, todo, history,
                 entry, signalled>>

(* slip: the value is written at head instead of tail *)
WriteTail_AtHead(t, next) ==
  IF head \in DOMAIN queue
    THEN /\ queue' = [queue EXCEPT ![head] = arg[t]]
         /\ Goto(t, next)
         /\ UNCHANGED <<capacity, head, tail, length, mtx, putcv, getcv,
                        locals, calls, work, cvr, todo, history, entry, signalled>>
    ELSE Panic(t)


(* nvq.queue[nvq.tail] = value *)
WriteTail(t, next) ==
  IF tail \in DOMAIN queue
    THEN /\ queue' = [queue EXCEPT ![tail] = arg[t]]
         /\ Goto(t, next)
         /\ UNCHANGED <<capacity, head, tail, length, mtx, putcv, getcv,
                        locals, calls, work, cvr, todo, history, entry, signalled>>
    ELSE Panic(t)

(* slip: tail advances without wrapping *)
AdvanceTail_NoWrap(t, next) ==
  /\ tail' = tail + 1
  /\ Goto(t, next)
  /\ UNCHANGED <<capacity, queue, head, length, mtx, putcv, getcv, locals,
                 calls, work, cvr, todo, history, entry, signalled>>

(* nvq.tail = (nvq.tail+1) % nvq.capacity *)
AdvanceTail(t, next) ==
  IF capacity # 0
    THEN /\ tail' = (tail + 1) % capacity
         /\ Goto(t, next)
         /\ UNCHANGED <<capacity, queue, head, length, mtx, putcv, getcv,
                        locals, calls, work, cvr, todo, history, entry, signalled>>
    ELSE Panic(t)

(* nvq.length++ *)
IncLength(t, next) ==
  /\ length' = length + 1
  /\ inserted' = Append(inserted, arg[t])
  /\ Goto(t, next)
  /\ UNCHANGED <<capacity, queue, head, tail, mtx, putcv, getcv, locals,
                 calls, work, cvr, todo, removed, mark, entry, signalled>>

(* slip: the newest element is read, the slot before tail *)
ReadHead_Newest(t, next) ==
  IF capacity # 0
    THEN /\ value' = [value EXCEPT
                        ![t] = queue[(tail + capacity - 1) % capacity]]
         /\ Goto(t, next)
         /\ UNCHANGED <<shared, mtx, putcv, getcv, arg, err, calls, work, cvr, todo,
                        history, entry, signalled>>
    ELSE Panic(t)

(* value = nvq.queue[nvq.head] *)
ReadHead(t, next) ==
  IF head \in DOMAIN queue
    THEN /\ value' = [value EXCEPT ![t] = queue[head]]
         /\ Goto(t, next)
         /\ UNCHANGED <<shared, mtx, putcv, getcv, arg, err, calls, work, cvr, todo,
                        history, entry, signalled>>
    ELSE Panic(t)

(* slip: head does not advance *)
AdvanceHead_Stuck(t, next) ==
  /\ Goto(t, next)
  /\ UNCHANGED <<shared, mtx, putcv, getcv, locals, calls, work, cvr, todo, history,
                 entry, signalled>>

(* nvq.head = (nvq.head + 1) % nvq.capacity *)
AdvanceHead(t, next) ==
  IF capacity # 0
    THEN /\ head' = (head + 1) % capacity
         /\ Goto(t, next)
         /\ UNCHANGED <<capacity, queue, tail, length, mtx, putcv, getcv,
                        locals, calls, work, cvr, todo, history, entry, signalled>>
    ELSE Panic(t)

(* nvq.length-- *)
DecLength(t, next) ==
  /\ length' = length - 1
  /\ removed' = Append(removed, value[t])
  /\ Goto(t, next)
  /\ UNCHANGED <<capacity, queue, head, tail, mtx, putcv, getcv, locals,
                 calls, work, cvr, todo, inserted, mark, entry, signalled>>

(* ------------------------------- calls -------------------------------- *)
(* What a blocking call finds when it begins: Put a full queue (and how    *)
(* many removals there were), Get an empty one (and how many insertions).  *)
MarkPut ==
  IF length = capacity
    THEN [NoMark EXCEPT !.full = TRUE, !.rem = Len(removed)]
    ELSE NoMark

MarkGet ==
  IF length = 0
    THEN [NoMark EXCEPT !.empty = TRUE, !.ins = Len(inserted)]
    ELSE NoMark

Begin(t, first, v, m) ==
  /\ At(t, "idle")
  /\ Goto(t, first)
  /\ arg' = [arg EXCEPT ![t] = v]
  /\ mark' = [mark EXCEPT ![t] = m]
  /\ UNCHANGED <<shared, mtx, putcv, getcv, value, err, inserted, removed,
                 entry, signalled>>

(* a caller, free to call anything: at most MaxOps calls in all *)
Call(t, first, v, m) ==
  /\ calls < MaxOps
  /\ calls' = calls + 1
  /\ Begin(t, first, v, m)
  /\ UNCHANGED <<work, cvr, todo>>

CallTryPut(t) == \E v \in Values : Call(t, "TryPut_Lock", v, NoMark)
CallPut(t) == \E v \in Values : Call(t, "Put_Lock", v, MarkPut)
CallGet(t) == Call(t, "Get_Lock", 0, MarkGet)
CallTryGet(t) == Call(t, "TryGet_Lock", 0, NoMark)

(* ------------------------------- TryPut ------------------------------- *)
TryPutLock(t) == At(t, "TryPut_Lock") /\ Lock(t, "TryPut_Check")

(* slip: full is tested as length > capacity *)
TryPutCheck_OffByOne(t) ==
  /\ At(t, "TryPut_Check")
  /\ IF length > capacity
       THEN /\ err' = [err EXCEPT ![t] = ErrFull]
            /\ Goto(t, "TryPut_Unlock")
       ELSE /\ Goto(t, "TryPut_Write")
            /\ UNCHANGED err
  /\ UNCHANGED <<shared, mtx, putcv, getcv, arg, value, calls, work, cvr, todo, history,
                 entry, signalled>>

(* slip: the full path falls through to the signal, as TryGet's does *)
TryPutCheck_SignalOnFull(t) ==
  /\ At(t, "TryPut_Check")
  /\ IF length = capacity
       THEN /\ err' = [err EXCEPT ![t] = ErrFull]
            /\ Goto(t, "TryPut_Signal")
       ELSE /\ Goto(t, "TryPut_Write")
            /\ UNCHANGED err
  /\ UNCHANGED <<shared, mtx, putcv, getcv, arg, value, calls, work, cvr, todo, history,
                 entry, signalled>>

(* slip: on a full queue TryPut waits for space, as Put does *)
TryPutCheck_Waits(t) ==
  /\ At(t, "TryPut_Check")
  /\ IF length = capacity
       THEN /\ putcv' = putcv \cup {t}
            /\ mtx' = NoThread
            /\ Goto(t, "TryPut_Wait")
            /\ entry' = Snap(putcv', getcv)
            /\ UNCHANGED signalled
       ELSE /\ Goto(t, "TryPut_Write")
            /\ UNCHANGED <<mtx, putcv, entry, signalled>>
  /\ UNCHANGED <<shared, getcv, locals, calls, work, cvr, todo, history>>

TryPutCheck(t) ==
  /\ At(t, "TryPut_Check")
  /\ IF length = capacity
       THEN /\ err' = [err EXCEPT ![t] = ErrFull]
            /\ Goto(t, "TryPut_Unlock")
       ELSE /\ Goto(t, "TryPut_Write")
            /\ UNCHANGED err
  /\ UNCHANGED <<shared, mtx, putcv, getcv, arg, value, calls, work, cvr, todo, history,
                 entry, signalled>>

TryPutWrite(t) == At(t, "TryPut_Write") /\ WriteTail(t, "TryPut_Tail")
TryPutTail(t) == At(t, "TryPut_Tail") /\ AdvanceTail(t, "TryPut_Len")
TryPutLen(t) == At(t, "TryPut_Len") /\ IncLength(t, "TryPut_Signal")
TryPutSignal(t) == At(t, "TryPut_Signal") /\ SignalGet(t, "TryPut_Unlock")
TryPutUnlock(t) == At(t, "TryPut_Unlock") /\ Unlock(t)

(* -------------------------------- Put --------------------------------- *)
PutLock(t) == At(t, "Put_Lock") /\ Lock(t, "Put_Check")

(* slip: the loop tests length > capacity *)
PutCheck_OffByOne(t) ==
  /\ At(t, "Put_Check")
  /\ IF length > capacity
       THEN WaitPut(t)
       ELSE /\ Goto(t, "Put_Write")
            /\ UNCHANGED <<shared, mtx, putcv, getcv, locals, calls, work, cvr, todo,
                           history, entry, signalled>>

(* slip: Put keeps one slot free: it waits already at length = capacity - 1 *)
PutCheck_EarlyWait(t) ==
  /\ At(t, "Put_Check")
  /\ IF length >= capacity - 1
       THEN WaitPut(t)
       ELSE /\ Goto(t, "Put_Write")
            /\ UNCHANGED <<shared, mtx, putcv, getcv, locals, calls, work, cvr, todo,
                           history, entry, signalled>>


PutCheck(t) ==
  /\ At(t, "Put_Check")
  /\ IF length = capacity
       THEN WaitPut(t)
       ELSE /\ Goto(t, "Put_Write")
            /\ UNCHANGED <<shared, mtx, putcv, getcv, locals, calls, work, cvr, todo,
                           history, entry, signalled>>

(* slip: a woken producer goes on to the write without re-testing the loop *)
PutRelock_NoRecheck(t) == At(t, "Put_Relock") /\ Lock(t, "Put_Write")

PutRelock(t) == At(t, "Put_Relock") /\ Lock(t, "Put_Check")
PutWrite(t) == At(t, "Put_Write") /\ WriteTail(t, "Put_Tail")
PutTail(t) == At(t, "Put_Tail") /\ AdvanceTail(t, "Put_Len")
PutLen(t) == At(t, "Put_Len") /\ IncLength(t, "Put_Signal")
PutSignal(t) == At(t, "Put_Signal") /\ SignalGet(t, "Put_Unlock")
PutUnlock(t) == At(t, "Put_Unlock") /\ Unlock(t)

(* -------------------------------- Get --------------------------------- *)
GetLock(t) == At(t, "Get_Lock") /\ Lock(t, "Get_Check")

(* slip: the loop tests length < 0, so Get never waits *)
GetCheck_Negative(t) ==
  /\ At(t, "Get_Check")
  /\ IF length < 0
       THEN WaitGet(t)
       ELSE /\ Goto(t, "Get_Read")
            /\ UNCHANGED <<shared, mtx, putcv, getcv, locals, calls, work, cvr, todo,
                           history, entry, signalled>>


(* slip: the loop tests for a full queue, as Put's does *)
GetCheck_FullTest(t) ==
  /\ At(t, "Get_Check")
  /\ IF length = capacity
       THEN WaitGet(t)
       ELSE /\ Goto(t, "Get_Read")
            /\ UNCHANGED <<shared, mtx, putcv, getcv, locals, calls, work, cvr, todo,
                           history, entry, signalled>>

GetCheck(t) ==
  /\ At(t, "Get_Check")
  /\ IF length = 0
       THEN WaitGet(t)
       ELSE /\ Goto(t, "Get_Read")
            /\ UNCHANGED <<shared, mtx, putcv, getcv, locals, calls, work, cvr, todo,
                           history, entry, signalled>>

GetRelock(t) == At(t, "Get_Relock") /\ Lock(t, "Get_Check")
GetRead(t) == At(t, "Get_Read") /\ ReadHead(t, "Get_Head")
GetHead(t) == At(t, "Get_Head") /\ AdvanceHead(t, "Get_Len")
GetLen(t) == At(t, "Get_Len") /\ DecLength(t, "Get_Signal")
GetSignal(t) == At(t, "Get_Signal") /\ SignalPut(t, "Get_Unlock")
GetUnlock(t) == At(t, "Get_Unlock") /\ Unlock(t)

(* ------------------------------- TryGet ------------------------------- *)
TryGetLock(t) == At(t, "TryGet_Lock") /\ Lock(t, "TryGet_Check")

(* slip: non-empty is tested as length >= 0 *)
TryGetCheck_OffByOne(t) ==
  /\ At(t, "TryGet_Check")
  /\ IF length >= 0
       THEN /\ Goto(t, "TryGet_Read")
            /\ UNCHANGED <<value, err>>
       ELSE /\ value' = [value EXCEPT ![t] = 0]
            /\ err' = [err EXCEPT ![t] = ErrEmpty]
            /\ Goto(t, "TryGet_Signal")
  /\ UNCHANGED <<shared, mtx, putcv, getcv, arg, calls, work, cvr, todo, history, entry,
                 signalled>>

TryGetCheck(t) ==
  /\ At(t, "TryGet_Check")
  /\ IF length > 0
       THEN /\ Goto(t, "TryGet_Read")
            /\ UNCHANGED <<value, err>>
       ELSE /\ value' = [value EXCEPT ![t] = 0]
            /\ err' = [err EXCEPT ![t] = ErrEmpty]
            /\ Goto(t, "TryGet_Signal")
  /\ UNCHANGED <<shared, mtx, putcv, getcv, arg, calls, work, cvr, todo, history, entry,
                 signalled>>

TryGetRead(t) == At(t, "TryGet_Read") /\ ReadHead(t, "TryGet_Head")
TryGetHead(t) == At(t, "TryGet_Head") /\ AdvanceHead(t, "TryGet_Len")
TryGetLen(t) == At(t, "TryGet_Len") /\ DecLength(t, "TryGet_Signal")
TryGetSignal(t) == At(t, "TryGet_Signal") /\ SignalPut(t, "TryGet_Unlock")
TryGetUnlock(t) == At(t, "TryGet_Unlock") /\ Unlock(t)

(* ---------------------------- specification --------------------------- *)
TryPut(t) ==
  \/ TryPutLock(t) \/ TryPutCheck(t) \/ TryPutWrite(t) \/ TryPutTail(t)
  \/ TryPutLen(t) \/ TryPutSignal(t) \/ TryPutUnlock(t)

Put(t) ==
  \/ PutLock(t) \/ PutCheck(t) \/ PutRelock(t) \/ PutWrite(t) \/ PutTail(t)
  \/ PutLen(t) \/ PutSignal(t) \/ PutUnlock(t)

Get(t) ==
  \/ GetLock(t) \/ GetCheck(t) \/ GetRelock(t) \/ GetRead(t) \/ GetHead(t)
  \/ GetLen(t) \/ GetSignal(t) \/ GetUnlock(t)

TryGet(t) ==
  \/ TryGetLock(t) \/ TryGetCheck(t) \/ TryGetRead(t) \/ TryGetHead(t)
  \/ TryGetLen(t) \/ TryGetSignal(t) \/ TryGetUnlock(t)

Next ==
  \E t \in Threads :
    \/ CallTryPut(t) \/ CallPut(t) \/ CallGet(t) \/ CallTryGet(t)
    \/ TryPut(t) \/ Put(t) \/ Get(t) \/ TryGet(t)

Spec == Init /\ [][Next]_vars

(* ------------------- a fixed workload of Put and Get ------------------- *)
(* Each thread makes todo[t].put calls of Put and todo[t].get calls of Get, *)
(* in any order, and no Try call; in all as many Put as Get.                *)
RECURSIVE Total(_, _, _)
Total(w, op, n) == IF n = 0 THEN 0 ELSE w[n][op] + Total(w, op, n - 1)

Workloads ==
  {w \in [Threads -> [put : 0..MaxPairs, get : 0..MaxPairs]] :
     /\ Total(w, "put", NThreads) = Total(w, "get", NThreads)
     /\ Total(w, "put", NThreads) \in 1..MaxPairs}

LiveInit ==
  /\ \E size \in Capacities \ {0} : NewNativeQueue(size)
  /\ cvr = {}
  /\ InitThreads
  /\ calls = 0
  /\ work \in Workloads
  /\ todo = work

StartPut(t) ==
  /\ todo[t].put > 0
  /\ todo' = [todo EXCEPT ![t].put = @ - 1]
  /\ \E v \in Values : Begin(t, "Put_Lock", v, MarkPut)
  /\ UNCHANGED <<calls, work, cvr>>

StartGet(t) ==
  /\ todo[t].get > 0
  /\ todo' = [todo EXCEPT ![t].get = @ - 1]
  /\ Begin(t, "Get_Lock", 0, MarkGet)
  /\ UNCHANGED <<calls, work, cvr>>

Run(t) == StartPut(t) \/ StartGet(t) \/ Put(t) \/ Get(t)

LiveNext == \E t \in Threads : Run(t)

(* every thread that can take a step eventually takes one *)
LiveSpec ==
  /\ LiveInit
  /\ [][LiveNext]_vars
  /\ \A t \in Threads : WF_vars(Run(t))

(* ========================== the Skeleton queue ========================= *)
(* Skeleton has length, capacity, one mutex and one condition variable cvr *)
(* on which both producers and consumers wait; it has no buffer.           *)
Nil == 0 - 1

NewSkeletonQueue(size) ==
  /\ capacity = size
  /\ length = 0
  /\ mtx = NoThread
  /\ cvr = {}
  /\ queue = [i \in {} |-> 0]
  /\ head = 0
  /\ tail = 0
  /\ putcv = {}
  /\ getcv = {}

SkelInit ==
  /\ \E size \in Capacities : NewSkeletonQueue(size)
  /\ InitThreads
  /\ calls = 0
  /\ work = NoWork
  /\ todo = work

(* skel.cvr.Signal(): wakes one thread suspended in cvr.Wait(), if any, be *)
(* it a producer or a consumer; the woken thread has to re-acquire the     *)
(* mutex                                                                   *)
SkSignal(t, next) ==
  /\ \/ /\ cvr = {}
        /\ Goto(t, next)
        /\ UNCHANGED cvr
     \/ \E w \in cvr :
          /\ cvr' = cvr \ {w}
          /\ pc' = [pc EXCEPT ![t] = next,
                              ![w] = IF pc[w] = "SkPut_Wait"
                                       THEN "SkPut_Relock" ELSE "SkGet_Relock"]
  /\ UNCHANGED <<shared, mtx, putcv, getcv, locals, calls, work, todo, history,
                 entry, signalled>>

(* skel.cvr.Wait(): joins the waiters and releases the mutex in one step *)
SkWait(t, at) ==
  /\ cvr' = cvr \cup {t}
  /\ mtx' = NoThread
  /\ Goto(t, at)
  /\ UNCHANGED <<shared, putcv, getcv, locals, calls, work, todo, history,
                 entry, signalled>>

(* skel.length++ *)
SkIncLength(t, next) ==
  /\ length' = length + 1
  /\ Goto(t, next)
  /\ UNCHANGED <<capacity, queue, head, tail, mtx, putcv, getcv, cvr, locals,
                 calls, work, todo, history, entry, signalled>>

(* value = 0 *)
SkValue(t, next) ==
  /\ value' = [value EXCEPT ![t] = 0]
  /\ Goto(t, next)
  /\ UNCHANGED <<shared, mtx, putcv, getcv, cvr, arg, err, calls, work, todo,
                 history, entry, signalled>>

(* skel.length-- *)
SkDecLength(t, next) ==
  /\ length' = length - 1
  /\ Goto(t, next)
  /\ UNCHANGED <<capacity, queue, head, tail, mtx, putcv, getcv, cvr, locals,
                 calls, work, todo, history, entry, signalled>>

CallSkTryPut(t) == \E v \in Values : Call(t, "SkTryPut_Lock", v, NoMark)
CallSkPut(t) == \E v \in Values : Call(t, "SkPut_Lock", v, NoMark)
CallSkGet(t) == Call(t, "SkGet_Lock", 0, NoMark)
CallSkTryGet(t) == Call(t, "SkTryGet_Lock", 0, NoMark)

(* ---------------------------- Skeleton.TryPut -------------------------- *)
SkTryPutLock(t) == At(t, "SkTryPut_Lock") /\ Lock(t, "SkTryPut_Check")

SkTryPutCheck(t) ==
  /\ At(t, "SkTryPut_Check")
  /\ IF length = capacity
       THEN /\ err' = [err EXCEPT ![t] = ErrFull]
            /\ Goto(t, "SkTryPut_Unlock")
       ELSE /\ Goto(t, "SkTryPut_Len")
            /\ UNCHANGED err
  /\ UNCHANGED <<shared, mtx, putcv, getcv, cvr, arg, value, calls, work, todo,
                 history, entry, signalled>>

SkTryPutLen(t) == At(t, "SkTryPut_Len") /\ SkIncLength(t, "SkTryPut_Signal")
SkTryPutSignal(t) == At(t, "SkTryPut_Signal") /\ SkSignal(t, "SkTryPut_Unlock")
SkTryPutUnlock(t) == At(t, "SkTryPut_Unlock") /\ Unlock(t)

SkTryPut(t) ==
  \/ SkTryPutLock(t) \/ SkTryPutCheck(t) \/ SkTryPutLen(t)
  \/ SkTryPutSignal(t) \/ SkTryPutUnlock(t)

(* ------------------------------ Skeleton.Put --------------------------- *)
SkPutLock(t) == At(t, "SkPut_Lock") /\ Lock(t, "SkPut_Check")

SkPutCheck(t) ==
  /\ At(t, "SkPut_Check")
  /\ IF length = capacity
       THEN SkWait(t, "SkPut_Wait")
       ELSE /\ Goto(t, "SkPut_Len")
            /\ UNCHANGED <<shared, mtx, putcv, getcv, cvr, locals, calls, work,
                           todo, history, entry, signalled>>

SkPutRelock(t) == At(t, "SkPut_Relock") /\ Lock(t, "SkPut_Check")
SkPutLen(t) == At(t, "SkPut_Len") /\ SkIncLength(t, "SkPut_Signal")
SkPutSignal(t) == At(t, "SkPut_Signal") /\ SkSignal(t, "SkPut_Unlock")
SkPutUnlock(t) == At(t, "SkPut_Unlock") /\ Unlock(t)

SkPut(t) ==
  \/ SkPutLock(t) \/ SkPutCheck(t) \/ SkPutRelock(t) \/ SkPutLen(t)
  \/ SkPutSignal(t) \/ SkPutUnlock(t)

(* ------------------------------ Skeleton.Get --------------------------- *)
(* Get returns after length-- without calling Signal.                      *)
SkGetLock(t) == At(t, "SkGet_Lock") /\ Lock(t, "SkGet_Check")

SkGetCheck(t) ==
  /\ At(t, "SkGet_Check")
  /\ IF length = 0
       THEN SkWait(t, "SkGet_Wait")
       ELSE /\ Goto(t, "SkGet_Value")
            /\ UNCHANGED <<shared, mtx, putcv, getcv, cvr, locals, calls, work,
                           todo, history, entry, signalled>>

SkGetRelock(t) == At(t, "SkGet_Relock") /\ Lock(t, "SkGet_Check")
SkGetValue(t) == At(t, "SkGet_Value") /\ SkValue(t, "SkGet_Len")
SkGetLen(t) == At(t, "SkGet_Len") /\ SkDecLength(t, "SkGet_Unlock")
SkGetUnlock(t) == At(t, "SkGet_Unlock") /\ Unlock(t)

SkGet(t) ==
  \/ SkGetLock(t) \/ SkGetCheck(t) \/ SkGetRelock(t) \/ SkGetValue(t)
  \/ SkGetLen(t) \/ SkGetUnlock(t)

(* ----------------------------- Skeleton.TryGet ------------------------- *)
(* TryGet returns without calling Signal on either branch.                 *)
SkTryGetLock(t) == At(t, "SkTryGet_Lock") /\ Lock(t, "SkTryGet_Check")

SkTryGetCheck(t) ==
  /\ At(t, "SkTryGet_Check")
  /\ IF length > 0
       THEN /\ Goto(t, "SkTryGet_Value")
            /\ UNCHANGED <<value, err>>
       ELSE /\ value' = [value EXCEPT ![t] = Nil]
            /\ err' = [err EXCEPT ![t] = ErrEmpty]
            /\ Goto(t, "SkTryGet_Unlock")
  /\ UNCHANGED <<shared, mtx, putcv, getcv, cvr, arg, calls, work, todo, history,
                 entry, signalled>>

SkTryGetValue(t) == At(t, "SkTryGet_Value") /\ SkValue(t, "SkTryGet_Len")
SkTryGetLen(t) == At(t, "SkTryGet_Len") /\ SkDecLength(t, "SkTryGet_Unlock")
SkTryGetUnlock(t) == At(t, "SkTryGet_Unlock") /\ Unlock(t)

SkTryGet(t) ==
  \/ SkTryGetLock(t) \/ SkTryGetCheck(t) \/ SkTryGetValue(t)
  \/ SkTryGetLen(t) \/ SkTryGetUnlock(t)

SkelNext ==
  \E t \in Threads :
    \/ CallSkTryPut(t) \/ CallSkPut(t) \/ CallSkGet(t) \/ CallSkTryGet(t)
    \/ SkTryPut(t) \/ SkPut(t) \/ SkGet(t) \/ SkTryGet(t)

SkelSpec == SkelInit /\ [][SkelNext]_vars


(* ------------------------- program positions -------------------------- *)
PutPcs ==
  {"Put_Lock", "Put_Check", "Put_Wait", "Put_Relock", "Put_Write", "Put_Tail",
   "Put_Len", "Put_Signal", "Put_Unlock"}
GetPcs ==
  {"Get_Lock", "Get_Check", "Get_Wait", "Get_Relock", "Get_Read", "Get_Head",
   "Get_Len", "Get_Signal", "Get_Unlock"}
(* past the wait loop of Put / Get *)
PutPastLoop == {"Put_Write", "Put_Tail", "Put_Len", "Put_Signal", "Put_Unlock"}
GetPastLoop == {"Get_Read", "Get_Head", "Get_Len", "Get_Signal", "Get_Unlock"}
(* calling Lock, the mutex not yet acquired *)
LockPcs == {"TryPut_Lock", "Put_Lock", "Put_Relock", "Get_Lock", "Get_Relock",
            "TryGet_Lock"}
InTry(t) == pc[t] \notin ({"idle", "panic"} \cup PutPcs \cup GetPcs)
Idle == \A t \in Threads : pc[t] = "idle"

IsPrefix(s, r) ==
  /\ Len(s) <= Len(r)
  /\ \A i \in 1..Len(s) : s[i] = r[i]
Distinct(s) == \A i, j \in 1..Len(s) : s[i] = s[j] => i = j
Count(v, s) == Cardinality({i \in 1..Len(s) : s[i] = v})
(* the stored elements, oldest first: length slots from head, wrapping *)
Contents == [i \in 1..length |-> queue[(head + i - 1) % capacity]]

(* ------------------------------- claims -------------------------------- *)

(* C1: with capacity >= 1, in every reachable state 0 <= length <= capacity, *)
(* so whatever Len() reads lies in [0, Cap()].                               *)
C1_LengthInRange == capacity >= 1 => (0 <= QLen /\ QLen <= QCap)

(* a full queue of capacity 2 with a producer suspended on it *)
C1_Witness ==
  /\ capacity = 2
  /\ length = capacity
  /\ \E t \in Threads : pc[t] = "Put_Wait"

(* C2: FIFO. The values removed, in the order of their critical sections,   *)
(* are a prefix of the values inserted, in the order of theirs.             *)
C2_Fifo == IsPrefix(removed, inserted)

(* two different values came out in order, and both indices have wrapped *)
C2_Witness ==
  /\ capacity = 2
  /\ Len(removed) = 2
  /\ removed[1] # removed[2]
  /\ removed = inserted
  /\ head = 0
  /\ tail = 0

(* C3: no loss, no double delivery. No value is removed that was not        *)
(* inserted; when the inserted values are distinct no value is removed      *)
(* twice; and when every call has returned and the queue is empty the       *)
(* removed values are, as a multiset, the inserted ones.                    *)
C3_NoLossNoDup ==
  /\ \A i \in 1..Len(removed) : \E j \in 1..Len(inserted) : removed[i] = inserted[j]
  /\ Distinct(inserted) => Distinct(removed)
  /\ (Idle /\ length = 0) =>
        /\ Len(inserted) = Len(removed)
        /\ \A v \in Values : Count(v, removed) = Count(v, inserted)

(* the run ended idle and empty after two distinct values went through *)
C3_Witness ==
  /\ Idle
  /\ length = 0
  /\ Len(inserted) = 2
  /\ Distinct(inserted)
  /\ Len(removed) = 2

(* C4: full rejection. A TryPut whose critical section began with           *)
(* length = capacity returns "queue is full", with buffer, head, tail and   *)
(* length as they were and no condition signalled; one that began with      *)
(* length < capacity returns nil and length is one more.                    *)
C4_TryPutFull ==
  \A t \in Threads :
    pc[t] = "TryPut_Unlock" =>
      /\ entry.length = capacity =>
           /\ err[t] = ErrFull
           /\ queue = entry.queue
           /\ head = entry.head
           /\ tail = entry.tail
           /\ length = entry.length
           /\ signalled = {}
           /\ putcv = entry.putcv
           /\ getcv = entry.getcv
      /\ entry.length < capacity =>
           /\ err[t] = NoErr
           /\ length = entry.length + 1

(* a TryPut is rejected on a full queue while a consumer is still suspended *)
C4_Witness ==
  \E t \in Threads :
    /\ pc[t] = "TryPut_Unlock"
    /\ err[t] = ErrFull
    /\ capacity >= 1
    /\ getcv # {}

(* C5: empty rejection. A TryGet whose critical section began with          *)
(* length = 0 returns "queue is empty" and the value 0, with buffer, head,  *)
(* tail and length as they were; one that began with length > 0 returns nil *)
(* and the value that was at buffer[head], and length is one less.          *)
C5_TryGetEmpty ==
  \A t \in Threads :
    pc[t] = "TryGet_Unlock" =>
      /\ entry.length = 0 =>
           /\ err[t] = ErrEmpty
           /\ value[t] = 0
           /\ queue = entry.queue
           /\ head = entry.head
           /\ tail = entry.tail
           /\ length = entry.length
      /\ entry.length > 0 =>
           /\ err[t] = NoErr
           /\ value[t] = entry.queue[entry.head]
           /\ length = entry.length - 1

(* the first call on a freshly constructed queue is a TryGet, and it fails *)
C5_Witness ==
  \E t \in Threads :
    /\ pc[t] = "TryGet_Unlock"
    /\ err[t] = ErrEmpty
    /\ capacity >= 1
    /\ calls = 1

(* C6: blocking Get. A Get that began on an empty queue is past its wait    *)
(* loop only after an insertion made since it began, and the value it       *)
(* returns is the one inserted at the position of its own removal, a        *)
(* position later than every insertion made before it began.                *)
C6_BlockingGet ==
  \A t \in Threads :
    (pc[t] \in GetPastLoop /\ mark[t].empty) =>
      /\ Len(inserted) > mark[t].ins
      /\ pc[t] = "Get_Unlock" =>
           /\ Len(removed) > mark[t].ins
           /\ Len(removed) <= Len(inserted)
           /\ value[t] = inserted[Len(removed)]

(* capacity 1: a Get that began empty and was suspended returns the one    *)
(* value inserted since                                                   *)
C6_Witness ==
  \E t \in Threads :
    /\ capacity = 1
    /\ pc[t] = "Get_Unlock"
    /\ mark[t].empty
    /\ mark[t].waited
    /\ inserted = <<MaxVal>>
    /\ value[t] = MaxVal

(* C7: blocking Put. A Put that began on a full queue is past its wait loop *)
(* (writes, inserts, returns) only after a removal made since it began; and *)
(* with capacity 2, after 1, 2, 3 were inserted and 1 removed, the queue    *)
(* holds 2 then 3.                                                          *)
C7_BlockingPut ==
  /\ \A t \in Threads :
       (pc[t] \in PutPastLoop /\ mark[t].full) => Len(removed) > mark[t].rem
  /\ (capacity = 2 /\ mtx = NoThread /\ inserted = <<1, 2, 3>> /\ removed = <<1>>)
        => Contents = <<2, 3>>

(* Put(3) began on the full queue <<1, 2>>, was suspended, and completes   *)
(* after 1 was removed                                                    *)
C7_Witness ==
  \E t \in Threads :
    /\ capacity = 2
    /\ pc[t] = "Put_Unlock"
    /\ mark[t].full
    /\ mark[t].waited
    /\ arg[t] = 3
    /\ inserted = <<1, 2, 3>>
    /\ removed = <<1>>
    /\ Contents = <<2, 3>>

(* every call of the workload was made and has returned, the queue is empty *)
Done ==
  /\ Idle
  /\ \A t \in Threads : todo[t].put = 0 /\ todo[t].get = 0
  /\ length = 0

(* no thread of the workload calls both Put and Get *)
PureRoles == \A t \in Threads : work[t].put = 0 \/ work[t].get = 0

(* C8, as stated: in a workload of as many Put as Get calls no execution    *)
(* ends with a thread suspended forever: a state in which no thread can     *)
(* take a step is one where every call has returned and the queue is empty. *)
C8_NoThreadStuck == (ENABLED LiveNext) \/ Done

(* C8, amended: when moreover every thread of the workload is a producer    *)
(* (calls only Put) or a consumer (calls only Get), then under weak         *)
(* fairness of the threads every call returns and the queue ends empty.     *)
C8_Terminates == PureRoles => <>[]Done

(* two producers of one Put each and a consumer of two Get are done, on a   *)
(* queue of capacity 1                                                      *)
C8_Witness ==
  /\ Done
  /\ capacity = 1
  /\ work = <<[put |-> 1, get |-> 0], [put |-> 1, get |-> 0], [put |-> 0, get |-> 2]>>
  /\ Len(removed) = 2
  /\ removed = inserted

(* C9: Try-variants never suspend. A thread in TryPut or TryGet is on no    *)
(* condition's waiters, and from the acquisition of the mutex to its return *)
(* it holds the mutex: it can only be delayed at Lock.                      *)
C9_TryNeverSuspends ==
  \A t \in Threads :
    InTry(t) =>
      /\ t \notin putcv \cup getcv
      /\ pc[t] \notin LockPcs => mtx = t

(* a TryPut returns from a full queue on which a producer is suspended *)
C9_Witness ==
  \E t \in Threads :
    /\ pc[t] = "TryPut_Unlock"
    /\ err[t] = ErrFull
    /\ capacity >= 1
    /\ putcv # {}

(* C10: index invariant. With capacity >= 1, outside critical sections head *)
(* and tail are in [0, capacity) and tail = (head + length) mod capacity;   *)
(* an insertion advances tail by 1 mod capacity and leaves head, a removal  *)
(* advances head by 1 mod capacity and leaves tail.                         *)
C10_Indices ==
  /\ (capacity >= 1 /\ mtx = NoThread) =>
        /\ head \in 0..(capacity - 1)
        /\ tail \in 0..(capacity - 1)
        /\ tail = (head + length) % capacity
  /\ \A t \in Threads :
       /\ (pc[t] \in {"Put_Unlock", "TryPut_Unlock"} /\ err[t] = NoErr) =>
             /\ tail = (entry.tail + 1) % capacity
             /\ head = entry.head
       /\ (pc[t] \in {"Get_Unlock", "TryGet_Unlock"} /\ err[t] = NoErr) =>
             /\ head = (entry.head + 1) % capacity
             /\ tail = entry.tail

(* a full queue of capacity 2 whose head and tail both stand at slot 1 *)
C10_Witness ==
  /\ mtx = NoThread
  /\ capacity = 2
  /\ length = 2
  /\ head = 1
  /\ tail = 1

(* a thread woken by Signal that has not yet re-acquired the mutex *)
Woken(t) == pc[t] \in {"Put_Relock", "Get_Relock"}

(* C11: no missed wakeup. With capacity >= 1, when no thread holds the      *)
(* mutex and no woken thread has yet to resume, no consumer is suspended in *)
(* Get while length > 0 and no producer is suspended in Put while           *)
(* length < capacity.                                                       *)
C11_NoMissedWakeup ==
  (capacity >= 1 /\ mtx = NoThread /\ \A t \in Threads : ~Woken(t)) =>
     /\ getcv # {} => length = 0
     /\ putcv # {} => length = capacity

(* after a removal woke one of two suspended producers, which used the slot, *)
(* the other is rightly still suspended on the full queue                    *)
C11_Witness ==
  /\ capacity >= 1
  /\ mtx = NoThread
  /\ \A t \in Threads : ~Woken(t)
  /\ putcv # {}
  /\ Len(removed) >= 1
  /\ length = capacity

(* C12: predicate re-check on wake. A resumed thread goes back to the loop  *)
(* test before it touches the buffer; a woken Put that finds the queue full *)
(* (or a woken Get that finds it empty) waits again without changing the    *)
(* queue; Put's write happens only with length < capacity and Get's read    *)
(* only with length > 0.                                                    *)
C12_RecheckOnWake ==
  [][\A t \in Threads :
       /\ (pc[t] = "Put_Relock" /\ pc'[t] # pc[t]) => pc'[t] = "Put_Check"
       /\ (pc[t] = "Get_Relock" /\ pc'[t] # pc[t]) => pc'[t] = "Get_Check"
       /\ (pc[t] = "Put_Check" /\ pc'[t] # pc[t] /\ length = capacity) =>
            pc'[t] = "Put_Wait" /\ t \in putcv' /\ shared' = shared
       /\ (pc[t] = "Get_Check" /\ pc'[t] # pc[t] /\ length = 0) =>
            pc'[t] = "Get_Wait" /\ t \in getcv' /\ shared' = shared
       /\ (pc[t] = "Put_Write" /\ pc'[t] # pc[t]) => length < capacity
       /\ (pc[t] = "Get_Read" /\ pc'[t] # pc[t]) => length > 0]_vars

(* a producer that waited, was woken by a removal and has the mutex again,  *)
(* finds the queue full: another producer took the freed slot               *)
C12_Witness ==
  \E t \in Threads :
    /\ pc[t] = "Put_Check"
    /\ mtx = t
    /\ mark[t].waited
    /\ capacity >= 1
    /\ length = capacity
    /\ Len(removed) >= 1

TryPutPcs ==
  {"TryPut_Lock", "TryPut_Check", "TryPut_Write", "TryPut_Tail", "TryPut_Len",
   "TryPut_Signal", "TryPut_Unlock"}
TryGetPcs ==
  {"TryGet_Lock", "TryGet_Check", "TryGet_Read", "TryGet_Head", "TryGet_Len",
   "TryGet_Signal", "TryGet_Unlock"}
WaitPcs == {"Put_Wait", "Get_Wait"}
(* between the return of Lock (or of Wait) and the deferred Unlock: every   *)
(* statement that reads or writes queue, head, tail or length is here       *)
CritPcs == (TryPutPcs \cup PutPcs \cup GetPcs \cup TryGetPcs) \ (LockPcs \cup WaitPcs)
InCrit == {t \in Threads : pc[t] \in CritPcs}

(* C13: mutual exclusion. At most one thread is between acquiring and       *)
(* releasing the mutex, and it is the holder; a thread suspended in Wait,   *)
(* or still calling Lock, does not hold it; so every statement of the four  *)
(* operations that accesses queue, head, tail or length runs by the holder. *)
C13_MutualExclusion ==
  /\ Cardinality(InCrit) <= 1
  /\ \A t \in Threads :
       /\ pc[t] \in CritPcs => mtx = t
       /\ pc[t] \in WaitPcs \cup LockPcs \cup {"idle"} => mtx # t
  /\ mtx # NoThread => mtx \in InCrit

(* one thread reading the buffer, one suspended in Wait, one blocked in Lock *)
C13_Witness ==
  \E t, u, w \in Threads :
    /\ pc[t] \in {"Get_Read", "TryGet_Read", "Put_Write", "TryPut_Write"}
    /\ pc[u] \in WaitPcs
    /\ pc[w] \in LockPcs

(* C14: a failed TryGet has no side effects. A TryGet that found the queue  *)
(* empty has not signalled putcv before it returns, and the set of          *)
(* producers suspended in Put is the one it found on acquiring the mutex.   *)
C14_FailedTryGetSilent ==
  \A t \in Threads :
    (pc[t] = "TryGet_Unlock" /\ err[t] = ErrEmpty) =>
       /\ "putcv" \notin signalled
       /\ putcv = entry.putcv

(* the threads that one step takes out of their Wait *)
WokenProducers == {t \in Threads : pc[t] = "Put_Wait" /\ pc'[t] # "Put_Wait"}
WokenConsumers == {t \in Threads : pc[t] = "Get_Wait" /\ pc'[t] # "Get_Wait"}

(* C15: signal-one, per-direction wakeups. One step wakes at most one       *)
(* suspended thread; a consumer is woken only by the Signal of a Put or     *)
(* TryPut that inserted, a producer only by the Signal of a Get or TryGet;  *)
(* an operation signals once, and the other direction's waiters are left    *)
(* alone, so no producer is woken by a producer's signal.                   *)
C15_SignalOne ==
  [][/\ Cardinality(WokenProducers \cup WokenConsumers) <= 1
     /\ WokenConsumers # {} =>
          /\ mtx \in Threads
          /\ pc[mtx] \in {"Put_Signal", "TryPut_Signal"}
          /\ length = entry.length + 1
          /\ WokenConsumers = getcv \ getcv'
     /\ WokenProducers # {} =>
          /\ mtx \in Threads
          /\ pc[mtx] \in {"Get_Signal", "TryGet_Signal"}
          /\ WokenProducers = putcv \ putcv'
     /\ \A t \in Threads :
          /\ (pc[t] \in {"Put_Signal", "TryPut_Signal"} /\ pc'[t] # pc[t]) =>
               putcv' = putcv /\ signalled = {} /\ signalled' = {"getcv"}
          /\ (pc[t] \in {"Get_Signal", "TryGet_Signal"} /\ pc'[t] # pc[t]) =>
               getcv' = getcv /\ signalled = {} /\ signalled' = {"putcv"}]_vars

(* an insertion has woken one of two suspended consumers; the other is      *)
(* still suspended                                                          *)
C15_Witness ==
  \E t, u, w \in Threads :
    /\ pc[t] \in {"Put_Unlock", "TryPut_Unlock"}
    /\ err[t] = NoErr
    /\ signalled = {"getcv"}
    /\ pc[u] = "Get_Relock"
    /\ u \in entry.getcv
    /\ pc[w] = "Get_Wait"

(* C16: blocking happens only at Full and Empty. Put enters Wait only from  *)
(* its loop test with length = capacity, Get only with length = 0; a Put    *)
(* that tests with length < capacity, and a Get that tests with length > 0, *)
(* goes on to insert / remove and from there straight to its return; the    *)
(* returning Put leaves length one above, the returning Get one below, what *)
(* it found when it last acquired the mutex.                                *)
C16_BlocksOnlyAtFullEmpty ==
  [][\A t \in Threads :
       /\ (pc'[t] = "Put_Wait" /\ pc[t] # "Put_Wait") =>
            pc[t] = "Put_Check" /\ length = capacity
       /\ (pc'[t] = "Get_Wait" /\ pc[t] # "Get_Wait") =>
            pc[t] = "Get_Check" /\ length = 0
       /\ (pc[t] = "Put_Check" /\ pc'[t] # pc[t] /\ length < capacity) =>
            pc'[t] = "Put_Write"
       /\ (pc[t] = "Get_Check" /\ pc'[t] # pc[t] /\ length > 0) =>
            pc'[t] = "Get_Read"
       /\ (pc[t] \in PutPastLoop /\ pc'[t] # pc[t]) =>
            pc'[t] \in PutPastLoop \cup {"idle"}
       /\ (pc[t] \in GetPastLoop /\ pc'[t] # pc[t]) =>
            pc'[t] \in GetPastLoop \cup {"idle"}
       /\ (pc[t] = "Put_Unlock" /\ pc'[t] = "idle") =>
            length' = entry.length + 1
       /\ (pc[t] = "Get_Unlock" /\ pc'[t] = "idle") =>
            length' = entry.length - 1]_vars

(* a Put that found one free slot of two is about to return, never having   *)
(* waited                                                                   *)
C16_Witness ==
  \E t \in Threads :
    /\ pc[t] = "Put_Unlock"
    /\ ~mark[t].waited
    /\ capacity = 2
    /\ entry.length = 1
    /\ length = 2

(* the statements that index the buffer or compute modulo capacity, and the *)
(* length updates after them                                                *)
AccessPcs ==
  {"TryPut_Write", "TryPut_Tail", "TryPut_Len", "Put_Write", "Put_Tail",
   "Put_Len", "Get_Read", "Get_Head", "Get_Len", "TryGet_Read", "TryGet_Head",
   "TryGet_Len"}

(* C17: capacity zero. A queue made by NewNativeQueue(0) stays at length 0  *)
(* with an empty buffer; a TryPut about to return returns the full error, a *)
(* TryGet the empty error; no thread reaches a statement that indexes the   *)
(* buffer or takes a remainder by capacity, none panics, and no Put or Get  *)
(* gets past its wait loop, so none returns.                                *)
C17_CapacityZero ==
  capacity = 0 =>
    /\ length = 0 /\ head = 0 /\ tail = 0
    /\ DOMAIN queue = {}
    /\ inserted = <<>> /\ removed = <<>>
    /\ \A t \in Threads :
         /\ pc[t] \notin AccessPcs \cup {"panic", "TryPut_Signal"}
         /\ pc[t] \notin PutPastLoop \cup GetPastLoop
         /\ pc[t] = "TryPut_Unlock" => err[t] = ErrFull
         /\ pc[t] \in {"TryGet_Signal", "TryGet_Unlock"} => err[t] = ErrEmpty
         /\ pc[t] = "Put_Check" => length = capacity
         /\ pc[t] = "Get_Check" => length = 0

(* capacity 0: a TryPut returning the full error while a Put and a Get are  *)
(* suspended, four calls having been made                                   *)
C17_Witness ==
  \E t, u, w \in Threads :
    /\ capacity = 0
    /\ pc[t] = "TryPut_Unlock" /\ err[t] = ErrFull
    /\ pc[u] = "Put_Wait"
    /\ pc[w] = "Get_Wait"
    /\ calls = MaxOps

(* the abstract queue: the values inserted and not yet removed, oldest first *)
Pending == SubSeq(inserted, Len(removed) + 1, Len(inserted))
(* the buffer indices that hold a stored element *)
Occupied == {(head + i) % capacity : i \in 0..(length - 1)}

(* C18: refinement of an abstract FIFO sequence. With capacity >= 1 and the *)
(* mutex free, the length slots from head (wrapping) are the inserted and   *)
(* not yet removed values in insertion order, and length is insertions      *)
(* minus removals; a thread about to write the slot at tail writes a slot   *)
(* that holds no stored element.                                            *)
C18_Refinement ==
  capacity >= 1 =>
    /\ mtx = NoThread =>
         /\ Len(removed) <= Len(inserted)
         /\ Contents = Pending
         /\ length = Len(inserted) - Len(removed)
    /\ \A t \in Threads :
         pc[t] \in {"Put_Write", "TryPut_Write"} => tail \notin Occupied

(* two different values stored across the wrap: the older one in slot 1,    *)
(* the newer one in slot 0, one earlier value already removed               *)
C18_Witness ==
  /\ mtx = NoThread
  /\ capacity = 2
  /\ length = 2
  /\ head = 1
  /\ Len(removed) = 1
  /\ queue[1] # queue[0]
  /\ queue[0] = inserted[3]

(* no thread of the Skeleton queue can take a step: the mutex is free and  *)
(* every thread is either between calls or suspended in cvr.Wait()         *)
SkQuiescent ==
  /\ mtx = NoThread
  /\ \A t \in Threads : pc[t] \in {"idle", "SkPut_Wait", "SkGet_Wait"}

(* C19: Skeleton queue wake protocol. With capacity >= 1, when no thread   *)
(* of the Skeleton queue is runnable, no producer is suspended in Put with *)
(* length < capacity and no consumer is suspended in Get with length > 0:  *)
(* a removal has woken the producer it made room for, an insertion the     *)
(* consumer it supplied.                                                   *)
C19_SkeletonWake ==
  (capacity >= 1 /\ SkQuiescent) =>
    \A t \in Threads :
      /\ pc[t] = "SkPut_Wait" => length = capacity
      /\ pc[t] = "SkGet_Wait" => length = 0

====
